---- MODULE Spec2Model ----
(***************************************************************************)
(* Model of the KNIME workflow column-flow pipeline:                        *)
(*   parseWorkflowKnime   (src/src/functions/parseWorkflowKnime.js)        *)
(*   getColumnNodes       (src/src/functions/getColumnNodes.js)            *)
(*   handleUpload, processWorkflowData (src/src/KNIMEViewer.jsx)           *)
(***************************************************************************)
EXTENDS Integers, Sequences, FiniteSets, TLC

VARIABLES
    nodes,            \* declared node ids, in declaration order
    connections,      \* declared connections, in declaration order
    xmlPaths,         \* settings.xml files of the archive, in archive order
    pc,               \* position of the upload/resolve pipeline
    nextNodes,        \* node.nextNodes of every declared node
    inDegree,         \* the inDegree object of parseWorkflowKnime
    queue,            \* Kahn's work queue (ids; an undeclared id stands for undefined)
    order,            \* the order counter of parseWorkflowKnime
    nodeOrder,        \* node.order of the nodes that were given one
    sortedNodes,      \* sortedNodes of parseWorkflowKnime
    parseResult,      \* "none" | "returned" | "thrown"
    warnings,         \* console.warn / console.error / message.error output
    xi,               \* index of the settings file handleUpload works on
    tempRawNodes,     \* tempRawNodes of handleUpload
    rawNodeData,      \* React state rawNodeData
    procSorted,       \* sortedNodes of processWorkflowData
    pi,               \* index of the node processWorkflowData works on
    processedNodeMap, \* processedNodeMap of processWorkflowData
    processedNodes,   \* React state processedNodes
    destPorts,        \* the destPort entry of every declared connection
    selectedNode,     \* id of the React state selectedNode (NoId when null)
    allProcessedNodes, \* the context handed to the SQL generator
    sqlResult,        \* what the SQL generator returned
    firstRun,         \* what the first call of processWorkflowData returned
    reruns,           \* how often the effect ran again on the same rawNodeData
    callArgs,         \* the arguments of a direct call of a settings accessor
    callResult        \* what the accessor returned

vars == <<nodes, connections, xmlPaths, pc, nextNodes, inDegree, queue, order,
          nodeOrder, sortedNodes, parseResult, warnings, xi, tempRawNodes,
          rawNodeData, procSorted, pi, processedNodeMap, processedNodes,
          destPorts, selectedNode, allProcessedNodes, sqlResult, firstRun, reruns,
          callArgs, callResult>>

\* the state of the SQL modal, and the part of workflow.knime no code reads
sqlVars == <<destPorts, selectedNode, allProcessedNodes, sqlResult>>

\* the record of the calls of processWorkflowData
rerunVars == <<firstRun, reruns>>

\* a direct call of getEntryValue or getArrayValuesFromConfig
callVars == <<callArgs, callResult>>

(***************************************************************************)
(* Bounds                                                                  *)
(***************************************************************************)
MaxNodes == 3
MaxConns == 2
MaxUploadNodes == 2
MaxUploadConns == 1
MaxFlowNodes == 2
MaxFlowConns == 1
MaxCols == 2
MaxFanIn == 2
MaxJoinerInputs == 3
MaxReruns == 1
MaxEntries == 2
MaxArraySize == 2

NodeIds == 1..MaxNodes
UploadIds == 1..MaxUploadNodes
Cols == {"a", "b", "c"}

(***************************************************************************)
(* Generic sequence helpers                                                *)
(***************************************************************************)
Range(s) == {s[i] : i \in DOMAIN s}

Includes(s, x) == \E i \in DOMAIN s : s[i] = x

IsInjective(s) == \A i, j \in DOMAIN s : s[i] = s[j] => i = j

SeqsUpTo(S, n) == UNION {[1..k -> S] : k \in 0..n}

Reverse(s) == [i \in DOMAIN s |-> s[Len(s) + 1 - i]]

RECURSIVE AscendingSeq(_)
AscendingSeq(S) ==
    IF S = {} THEN <<>>
    ELSE LET m == CHOOSE x \in S : \A y \in S : x <= y
         IN <<m>> \o AscendingSeq(S \ {m})

\* Array.from(new Set(s)): first occurrences, in order
RECURSIVE Dedupe(_)
Dedupe(s) ==
    IF s = <<>> THEN <<>>
    ELSE LET front == Dedupe(SubSeq(s, 1, Len(s) - 1))
             last  == s[Len(s)]
         IN IF Includes(front, last) THEN front ELSE Append(front, last)

(***************************************************************************)
(* Settings trees, reduced to the entries getColumnNodes reads             *)
(***************************************************************************)
CSVReaderFactory    == "CSVTableReaderNodeFactory"
ExcelReaderFactory  == "ExcelTableReaderNodeFactory"
ColumnFilterFactory == "DataColumnSpecFilterNodeFactory"
RowFilterFactory    == "RowFilterNodeFactory"
ColumnMergerFactory == "ColumnMergerNodeFactory"
StringToNumberFactory == "StringToNumber2NodeFactory"
JoinerFactory       == "JoinerNodeFactory"
Joiner3Factory      == "Joiner3NodeFactory"
OtherFactory        == "ColumnRenamerNodeFactory"

\* A config: factory ("" when the entry is missing), whether the "model" block
\* exists, whether a file name is configured, the reader's column names, the
\* column filter's included_names / excluded_names, and the merger's entries
\* ("" when missing or empty: getEntryValue returns null for both).
MkConfig(f, m, fn, cols, inc, exc, p, s, pl, on) ==
    [factory |-> f, hasModel |-> m, hasFileName |-> fn, columns |-> cols,
     included |-> inc, excluded |-> exc, primaryColumn |-> p,
     secondaryColumn |-> s, outputPlacement |-> pl, outputName |-> on]

ReaderConfig(f, cols) == MkConfig(f, TRUE, TRUE, cols, <<>>, <<>>, "", "", "", "")
BrokenReaderConfig    == MkConfig(CSVReaderFactory, TRUE, FALSE, <<>>, <<>>, <<>>, "", "", "", "")
FilterConfig(inc, exc) == MkConfig(ColumnFilterFactory, TRUE, TRUE, <<>>, inc, exc, "", "", "", "")
MergerConfig(p, s, pl, on) == MkConfig(ColumnMergerFactory, TRUE, TRUE, <<>>, <<>>, <<>>, p, s, pl, on)
PlainConfig(f) == MkConfig(f, TRUE, TRUE, <<>>, <<>>, <<>>, "", "", "", "")

ExpressionFactory         == "ExpressionRowMapperNodeFactory"
RuleEngineFactory         == "RuleEngineNodeFactory"
StringManipulationFactory == "StringManipulationNodeFactory"

\* a Column Renamer whose "renamings" block holds one rule oldName -> newName
RenamerConfig(old, new) ==
    PlainConfig(OtherFactory) @@ [oldName |-> old, newName |-> new]

\* an Expression node (one script, columnOutputMode APPEND, createdColumn col),
\* a Rule Engine (parsable rules, append-column, new-column-name col) or a
\* String Manipulation node (regexReplace on $col$, replaced_column col,
\* append_column true)
ScriptConfig(f, col) == PlainConfig(f) @@ [createdColumn |-> col]

\* a Joiner with one matching criterion, an inner join, and column selections
\* that keep every available column
JoinerConfig(f, lk, rk, merge) ==
    PlainConfig(f) @@ [leftTableColumn |-> lk, rightTableColumn |-> rk,
                       mergeJoinColumns |-> merge]

IsReaderFactory(f) == f \in {CSVReaderFactory, ExcelReaderFactory}

ColumnResult(fin, add, rem) ==
    [isNull |-> FALSE, finalColumns |-> fin, addedColumns |-> add, removedColumns |-> rem]

NullResult ==
    [isNull |-> TRUE, finalColumns |-> <<>>, addedColumns |-> <<>>, removedColumns |-> <<>>]

\* case DataColumnSpecFilterNodeFactory of getColumnNodes
ColumnFilterColumns(cfg) ==
    IF ~cfg.hasModel THEN ColumnResult(<<>>, <<>>, <<>>)
    ELSE ColumnResult(SelectSeq(cfg.included, LAMBDA c : ~Includes(cfg.excluded, c)),
                      <<>>, cfg.excluded)

\* case RowFilterNodeFactory / ColumnMergerNodeFactory of getColumnNodes
ColumnMergerColumns(cfg) ==
    IF ~cfg.hasModel THEN ColumnResult(<<>>, <<>>, <<>>)
    ELSE IF cfg.primaryColumn = "" \/ cfg.secondaryColumn = "" \/ cfg.outputPlacement = ""
    THEN ColumnResult(<<>>, <<>>, <<>>)
    ELSE LET added == IF cfg.outputPlacement = "AppendAsNewColumn" /\ cfg.outputName # ""
                      THEN <<cfg.outputName>> ELSE <<>>
             remP  == IF cfg.outputPlacement \in {"ReplacePrimary", "ReplaceBoth"}
                      THEN <<cfg.primaryColumn>> ELSE <<>>
             remS  == IF cfg.outputPlacement \in {"ReplaceSecondary", "ReplaceBoth"}
                      THEN <<cfg.secondaryColumn>> ELSE <<>>
         IN ColumnResult(<<>>, added, Dedupe(remP \o remS))

\* getColumnNodes(nodeConfig, inputColumnNames); inputCols is <<>> when the
\* second argument is omitted
getColumnNodes(cfg, inputCols) ==
    IF cfg.factory = "" THEN NullResult
    ELSE IF IsReaderFactory(cfg.factory)
    THEN IF ~cfg.hasModel \/ ~cfg.hasFileName THEN NullResult
         ELSE ColumnResult(cfg.columns, <<>>, <<>>)
    ELSE IF cfg.factory = ColumnFilterFactory THEN ColumnFilterColumns(cfg)
    ELSE IF cfg.factory \in {RowFilterFactory, ColumnMergerFactory} THEN ColumnMergerColumns(cfg)
    ELSE ColumnResult(inputCols, <<>>, <<>>)

(***************************************************************************)
(* parseWorkflowKnime                                                      *)
(***************************************************************************)
Declared == Range(nodes)

Warn(m, a, b) == [msg |-> m, node |-> a, other |-> b]

\* faulty variant: a destID is entered once however many connections lead to it
RECURSIVE DestsFromDistinct(_, _)
DestsFromDistinct(id, conns) ==
    IF conns = <<>> THEN <<>>
    ELSE LET rest == DestsFromDistinct(id, Tail(conns))
         IN IF Head(conns).sourceID = id /\ ~Includes(rest, Head(conns).destID)
            THEN <<Head(conns).destID>> \o rest
            ELSE rest

\* nodeMap[id].nextNodes after the connections loop
RECURSIVE DestsFrom(_, _)
DestsFrom(id, conns) ==
    IF conns = <<>> THEN <<>>
    ELSE (IF Head(conns).sourceID = id THEN <<Head(conns).destID>> ELSE <<>>)
         \o DestsFrom(id, Tail(conns))

\* faulty variant: a connection is entered at both of its ends
RECURSIVE EndsAt(_, _, _)
EndsAt(id, ns, conns) ==
    IF conns = <<>> THEN <<>>
    ELSE (IF Head(conns).sourceID = id THEN <<Head(conns).destID>> ELSE <<>>)
         \o (IF Head(conns).destID = id /\ Head(conns).sourceID \in Range(ns)
             THEN <<Head(conns).sourceID>> ELSE <<>>)
         \o EndsAt(id, ns, Tail(conns))

BuildNextNodesBothEnds(ns, conns) == [id \in Range(ns) |-> EndsAt(id, ns, conns)]

BuildNextNodes(ns, conns) == [id \in Range(ns) |-> DestsFrom(id, conns)]

\* faulty variant: self-connections are not counted
BuildInDegreeNoSelf(ns, conns) ==
    [id \in Range(ns) \cup {conns[k].destID : k \in DOMAIN conns} |->
        Cardinality({k \in DOMAIN conns : conns[k].destID = id /\ conns[k].sourceID # id})]

\* inDegree after the connections loop: an entry for every declared node and
\* for every destID, counting the connections that end there
BuildInDegree(ns, conns) ==
    [id \in Range(ns) \cup {conns[k].destID : k \in DOMAIN conns} |->
        Cardinality({k \in DOMAIN conns : conns[k].destID = id})]

\* faulty variant: every node is pushed, whatever its in-degree
SeedQueueAll(ns, deg) == ns

\* the nodes pushed before the while loop
SeedQueue(ns, deg) == SelectSeq(ns, LAMBDA id : deg[id] = 0)

\* faulty variant: a node that became ready is put at the head of the queue
RECURSIVE VisitNextLifo(_, _, _)
VisitNextLifo(succ, deg, q) ==
    IF succ = <<>> THEN [deg |-> deg, queue |-> q]
    ELSE LET nid  == Head(succ)
             deg2 == [deg EXCEPT ![nid] = @ - 1]
             q2   == IF deg2[nid] = 0 THEN <<nid>> \o q ELSE q
         IN VisitNextLifo(Tail(succ), deg2, q2)

\* current.nextNodes.forEach: decrement, push when the counter reaches 0
RECURSIVE VisitNext(_, _, _)
VisitNext(succ, deg, q) ==
    IF succ = <<>> THEN [deg |-> deg, queue |-> q]
    ELSE LET nid  == Head(succ)
             deg2 == [deg EXCEPT ![nid] = @ - 1]
             q2   == IF deg2[nid] = 0 THEN Append(q, nid) ELSE q
         IN VisitNext(Tail(succ), deg2, q2)

\* the test on the connections block: a block without a connection has no
\* config child
HasConnectionsBlock(conns) == conns # <<>>

\* "Connections block not found in workflow JSON.": the parser throws before
\* it builds anything, handleUpload's catch reports it
BuildThrow ==
    /\ pc = "build"
    /\ ~HasConnectionsBlock(connections)
    /\ parseResult' = "thrown"
    /\ warnings' = warnings \cup {Warn("Failed to process .knwf file", 0, 0)}
    /\ pc' = "failed"
    /\ UNCHANGED sqlVars
    /\ UNCHANGED callVars
    /\ UNCHANGED rerunVars
    /\ UNCHANGED <<nodes, connections, xmlPaths, nextNodes, inDegree, queue, order,
                   nodeOrder, sortedNodes, xi, tempRawNodes, rawNodeData,
                   procSorted, pi, processedNodeMap, processedNodes>>

BuildGraph ==
    /\ pc = "build"
    /\ HasConnectionsBlock(connections)
    /\ nextNodes' = BuildNextNodes(nodes, connections)
    /\ inDegree' = BuildInDegree(nodes, connections)
    /\ queue' = SeedQueue(nodes, inDegree')
    /\ pc' = "kahn"
    /\ UNCHANGED sqlVars
    /\ UNCHANGED callVars
    /\ UNCHANGED rerunVars
    /\ UNCHANGED <<nodes, connections, xmlPaths, order, nodeOrder, sortedNodes,
                   parseResult, warnings, xi, tempRawNodes, rawNodeData,
                   procSorted, pi, processedNodeMap, processedNodes>>

\* faulty variant: the counter is not incremented after it was assigned
DequeueKeepOrder ==
    /\ pc = "kahn"
    /\ queue # <<>>
    /\ Head(queue) \in Declared
    /\ LET current == Head(queue)
           r == VisitNext(nextNodes[current], inDegree, Tail(queue))
       IN /\ nodeOrder' = [k \in DOMAIN nodeOrder \cup {current} |->
                              IF k = current THEN order ELSE nodeOrder[k]]
          /\ order' = order
          /\ sortedNodes' = Append(sortedNodes, current)
          /\ inDegree' = r.deg
          /\ queue' = r.queue
    /\ UNCHANGED sqlVars
    /\ UNCHANGED callVars
    /\ UNCHANGED rerunVars
    /\ UNCHANGED <<nodes, connections, xmlPaths, pc, nextNodes, parseResult,
                   warnings, xi, tempRawNodes, rawNodeData, procSorted, pi,
                   processedNodeMap, processedNodes>>

\* one iteration of the while loop on a declared node
Dequeue ==
    /\ pc = "kahn"
    /\ queue # <<>>
    /\ Head(queue) \in Declared
    /\ LET current == Head(queue)
           r == VisitNext(nextNodes[current], inDegree, Tail(queue))
       IN /\ nodeOrder' = [k \in DOMAIN nodeOrder \cup {current} |->
                              IF k = current THEN order ELSE nodeOrder[k]]
          /\ order' = order + 1
          /\ sortedNodes' = Append(sortedNodes, current)
          /\ inDegree' = r.deg
          /\ queue' = r.queue
    /\ UNCHANGED sqlVars
    /\ UNCHANGED callVars
    /\ UNCHANGED rerunVars
    /\ UNCHANGED <<nodes, connections, xmlPaths, pc, nextNodes, parseResult,
                   warnings, xi, tempRawNodes, rawNodeData, procSorted, pi,
                   processedNodeMap, processedNodes>>

\* the iteration that shifts undefined (nodeMap had no node for a pushed id):
\* current.order = order throws, handleUpload's catch reports it
DequeueUndefined ==
    /\ pc = "kahn"
    /\ queue # <<>>
    /\ Head(queue) \notin Declared
    /\ queue' = Tail(queue)
    /\ parseResult' = "thrown"
    /\ warnings' = warnings \cup {Warn("Failed to process .knwf file", 0, 0)}
    /\ pc' = "failed"
    /\ UNCHANGED sqlVars
    /\ UNCHANGED callVars
    /\ UNCHANGED rerunVars
    /\ UNCHANGED <<nodes, connections, xmlPaths, nextNodes, inDegree, order,
                   nodeOrder, sortedNodes, xi, tempRawNodes, rawNodeData,
                   procSorted, pi, processedNodeMap, processedNodes>>

ParseReturn ==
    /\ pc = "kahn"
    /\ queue = <<>>
    /\ warnings' = IF Len(sortedNodes) # Len(nodes)
                   THEN warnings \cup {Warn("The workflow may contain cycles or disconnected parts", 0, 0)}
                   ELSE warnings
    /\ parseResult' = "returned"
    /\ xi' = 1
    /\ pc' = "upload"
    /\ UNCHANGED sqlVars
    /\ UNCHANGED callVars
    /\ UNCHANGED rerunVars
    /\ UNCHANGED <<nodes, connections, xmlPaths, nextNodes, inDegree, queue,
                   order, nodeOrder, sortedNodes, tempRawNodes, rawNodeData,
                   procSorted, pi, processedNodeMap, processedNodes>>

(***************************************************************************)
(* handleUpload                                                            *)
(***************************************************************************)
NoId == 0        \* nodeId is null: the folder name carries no " (#id)"
NoOrder == -1    \* order is undefined

\* nodeInfoMap built from the nodes parseWorkflowKnime returned
nodeInfoMap ==
    [id \in Range(sortedNodes) |-> [order |-> nodeOrder[id], nextNodes |-> nextNodes[id]]]

RawNode(id, cfg, info, cols) ==
    [id |-> id, nodeType |-> cfg.factory, config |-> cfg,
     order |-> info.order, nextNodes |-> info.nextNodes,
     initialOutputColumns |-> cols.finalColumns,
     addedColumns |-> cols.addedColumns,
     removedColumns |-> cols.removedColumns,
     nodes |-> <<>>, previousNodes |-> <<>>]

\* the test guarding the branch that builds a raw node: nodeInfoMap[nodeId]
\* is undefined for an id without workflow info, and undefined !== null
HasIdAndInfo(nodeId) == nodeId # NoId

\* one iteration of the loop over the settings.xml files that pushes a node
UploadItem ==
    /\ pc = "upload"
    /\ xi <= Len(xmlPaths)
    /\ LET item == xmlPaths[xi]
           cols == getColumnNodes(item.config, <<>>)
       IN /\ HasIdAndInfo(item.nodeId)
          /\ ~cols.isNull
          /\ item.nodeId \in DOMAIN nodeInfoMap
          /\ tempRawNodes' = Append(tempRawNodes,
                 RawNode(item.nodeId, item.config, nodeInfoMap[item.nodeId], cols))
    /\ xi' = xi + 1
    /\ UNCHANGED sqlVars
    /\ UNCHANGED callVars
    /\ UNCHANGED rerunVars
    /\ UNCHANGED <<nodes, connections, xmlPaths, pc, nextNodes, inDegree, queue,
                   order, nodeOrder, sortedNodes, parseResult, warnings,
                   rawNodeData, procSorted, pi, processedNodeMap, processedNodes>>

\* the else branch: no node id could be extracted from the folder name
UploadSkip ==
    /\ pc = "upload"
    /\ xi <= Len(xmlPaths)
    /\ ~HasIdAndInfo(xmlPaths[xi].nodeId)
    /\ warnings' = warnings \cup
           {Warn("Could not extract valid node ID or workflow info", xmlPaths[xi].nodeId, xi)}
    /\ xi' = xi + 1
    /\ UNCHANGED sqlVars
    /\ UNCHANGED callVars
    /\ UNCHANGED rerunVars
    /\ UNCHANGED <<nodes, connections, xmlPaths, pc, nextNodes, inDegree, queue,
                   order, nodeOrder, sortedNodes, parseResult, tempRawNodes,
                   rawNodeData, procSorted, pi, processedNodeMap, processedNodes>>

\* the iteration that throws a TypeError: destructuring the null returned by
\* getColumnNodes, or reading .order of the undefined parsedNodeInfo; the
\* catch block reports it and rawNodeData is never set
UploadThrow ==
    /\ pc = "upload"
    /\ xi <= Len(xmlPaths)
    /\ LET item == xmlPaths[xi]
       IN /\ HasIdAndInfo(item.nodeId)
          /\ \/ getColumnNodes(item.config, <<>>).isNull
             \/ item.nodeId \notin DOMAIN nodeInfoMap
    /\ warnings' = warnings \cup {Warn("Failed to process .knwf file", xmlPaths[xi].nodeId, xi)}
    /\ pc' = "failed"
    /\ UNCHANGED sqlVars
    /\ UNCHANGED callVars
    /\ UNCHANGED rerunVars
    /\ UNCHANGED <<nodes, connections, xmlPaths, nextNodes, inDegree, queue,
                   order, nodeOrder, sortedNodes, parseResult, xi, tempRawNodes,
                   rawNodeData, procSorted, pi, processedNodeMap, processedNodes>>

\* setRawNodeData(tempRawNodes)
UploadDone ==
    /\ pc = "upload"
    /\ xi > Len(xmlPaths)
    /\ rawNodeData' = tempRawNodes
    /\ pc' = "effect"
    /\ UNCHANGED sqlVars
    /\ UNCHANGED callVars
    /\ UNCHANGED rerunVars
    /\ UNCHANGED <<nodes, connections, xmlPaths, nextNodes, inDegree, queue,
                   order, nodeOrder, sortedNodes, parseResult, warnings, xi,
                   tempRawNodes, procSorted, pi, processedNodeMap, processedNodes>>

(***************************************************************************)
(* processWorkflowData (run by the effect on rawNodeData)                  *)
(***************************************************************************)
EmptyMap == [k \in {} |-> 0]

\* originalNodeMap: the reduce keeps the last record of every id
originalNodeMap(rawData) ==
    [id \in {rawData[i].id : i \in DOMAIN rawData} \ {NoId} |->
        rawData[CHOOSE i \in DOMAIN rawData :
                    /\ rawData[i].id = id
                    /\ \A j \in DOMAIN rawData : j > i => rawData[j].id # id]]

\* the comparator handed to sort
CompareOrder(a, b) ==
    IF a.order = NoOrder THEN 1
    ELSE IF b.order = NoOrder THEN -1
    ELSE a.order - b.order

\* faulty variant: the copy is left in archive order
SortByOrderNone(s) == s

RECURSIVE InsertByOrder(_, _)
InsertByOrder(x, s) ==
    IF s = <<>> THEN <<x>>
    ELSE IF CompareOrder(Head(s), x) > 0 THEN <<x>> \o s
    ELSE <<Head(s)>> \o InsertByOrder(x, Tail(s))

\* [...rawData].sort(comparator): a stable sort
RECURSIVE SortByOrder(_)
SortByOrder(s) ==
    IF s = <<>> THEN <<>>
    ELSE InsertByOrder(s[Len(s)], SortByOrder(SubSeq(s, 1, Len(s) - 1)))

\* faulty variant: the keys are enumerated in another order on a later call
FindPredecessorIdsUnstable(currentId, onm) ==
    LET keys == IF reruns = 0 THEN AscendingSeq(DOMAIN onm)
                ELSE Reverse(AscendingSeq(DOMAIN onm))
    IN SelectSeq(keys, LAMBDA p : onm[p].id # currentId /\ Includes(onm[p].nextNodes, currentId))

\* the for-in loop over originalNodeMap: integer keys come in ascending order
FindPredecessorIds(currentId, onm) ==
    SelectSeq(AscendingSeq(DOMAIN onm),
              LAMBDA p : onm[p].id # currentId /\ Includes(onm[p].nextNodes, currentId))

RECURSIVE ConcatPredecessorColumns(_, _)
ConcatPredecessorColumns(predIds, pmap) ==
    IF predIds = <<>> THEN <<>>
    ELSE (IF Head(predIds) \in DOMAIN pmap THEN pmap[Head(predIds)].nodes ELSE <<>>)
         \o ConcatPredecessorColumns(Tail(predIds), pmap)

\* faulty variant: the predecessors' columns are concatenated
GatherInputColumnsConcat(predIds, pmap) == ConcatPredecessorColumns(predIds, pmap)

\* calculatedInputColumns: the Set of the predecessors' columns, as an array
GatherInputColumns(predIds, pmap) == Dedupe(ConcatPredecessorColumns(predIds, pmap))

\* the warning of the else branch inside predecessorIds.forEach
MissingPredecessorWarnings(currentId, predIds, pmap) ==
    {Warn("Predecessor not found in processed map or has no columns", currentId, p) :
        p \in {q \in Range(predIds) : q \notin DOMAIN pmap}}

\* faulty variant: a re-added name is moved to the end
FinalOutputColumnsReAppend(node, inputCols) ==
    IF Len(node.initialOutputColumns) > 0
    THEN node.initialOutputColumns
    ELSE SelectSeq(inputCols, LAMBDA c : /\ ~Includes(node.removedColumns, c)
                                         /\ ~Includes(node.addedColumns, c))
         \o node.addedColumns

\* finalOutputColumns of the current node
FinalOutputColumns(node, inputCols) ==
    IF Len(node.initialOutputColumns) > 0
    THEN node.initialOutputColumns
    ELSE Dedupe(SelectSeq(inputCols, LAMBDA c : ~Includes(node.removedColumns, c))
                \o node.addedColumns)

\* faulty variant: rawData.sort(...) sorts the argument itself
RawDataAfterSortInPlace(rawData) == SortByOrder(rawData)

\* rawData after [...rawData].sort(...): the sort works on a copy
RawDataAfterSort(rawData) == rawData

\* the effect: an empty rawNodeData clears processedNodes, otherwise
\* processWorkflowData starts by sorting a copy of it
EffectStart ==
    /\ pc = "effect"
    /\ IF rawNodeData = <<>>
       THEN /\ processedNodes' = <<>>
            /\ pc' = "done"
            /\ UNCHANGED <<procSorted, pi, processedNodeMap, rawNodeData>>
       ELSE /\ procSorted' = SortByOrder(rawNodeData)
            /\ rawNodeData' = RawDataAfterSort(rawNodeData)
            /\ pi' = 1
            /\ processedNodeMap' = EmptyMap
            /\ pc' = "resolve"
            /\ UNCHANGED processedNodes
    /\ UNCHANGED sqlVars
    /\ UNCHANGED callVars
    /\ UNCHANGED rerunVars
    /\ UNCHANGED <<nodes, connections, xmlPaths, nextNodes, inDegree, queue,
                   order, nodeOrder, sortedNodes, parseResult, warnings, xi,
                   tempRawNodes>>

\* one iteration of the loop over sortedNodes
ProcessNode ==
    /\ pc = "resolve"
    /\ pi <= Len(procSorted)
    /\ LET currentNode == procSorted[pi]
           predecessorIds == FindPredecessorIds(currentNode.id, originalNodeMap(rawNodeData))
           calculatedInputColumns == GatherInputColumns(predecessorIds, processedNodeMap)
           finalOutputColumns == FinalOutputColumns(currentNode, calculatedInputColumns)
           processed == [currentNode EXCEPT !.previousNodes = predecessorIds,
                                            !.nodes = finalOutputColumns]
       IN IF currentNode.id = NoId
          THEN UNCHANGED <<processedNodeMap, warnings>>
          ELSE /\ processedNodeMap' =
                     [k \in DOMAIN processedNodeMap \cup {currentNode.id} |->
                         IF k = currentNode.id THEN processed ELSE processedNodeMap[k]]
               /\ warnings' = warnings \cup
                     MissingPredecessorWarnings(currentNode.id, predecessorIds, processedNodeMap)
    /\ pi' = pi + 1
    /\ UNCHANGED sqlVars
    /\ UNCHANGED callVars
    /\ UNCHANGED rerunVars
    /\ UNCHANGED <<nodes, connections, xmlPaths, pc, nextNodes, inDegree, queue,
                   order, nodeOrder, sortedNodes, parseResult, xi, tempRawNodes,
                   rawNodeData, procSorted, processedNodes>>

\* the map/filter that turns processedNodeMap into the result, and
\* setProcessedNodes
ProcessFinish ==
    /\ pc = "resolve"
    /\ pi > Len(procSorted)
    /\ processedNodes' =
           LET present == SelectSeq(procSorted, LAMBDA n : n.id \in DOMAIN processedNodeMap)
           IN [i \in DOMAIN present |-> processedNodeMap[present[i].id]]
    /\ pc' = "done"
    /\ UNCHANGED sqlVars
    /\ UNCHANGED callVars
    /\ UNCHANGED rerunVars
    /\ UNCHANGED <<nodes, connections, xmlPaths, nextNodes, inDegree, queue,
                   order, nodeOrder, sortedNodes, parseResult, warnings, xi,
                   tempRawNodes, rawNodeData, procSorted, pi, processedNodeMap>>

\* the effect runs once more on the rawNodeData it already processed, before
\* the user opens the modal; what the first call returned is kept for
\* comparison
Rerun ==
    /\ pc = "done"
    /\ rawNodeData # <<>>
    /\ selectedNode = NoId
    /\ reruns < MaxReruns
    /\ firstRun' = IF reruns = 0 THEN processedNodes ELSE firstRun
    /\ reruns' = reruns + 1
    /\ pc' = "effect"
    /\ UNCHANGED sqlVars
    /\ UNCHANGED callVars
    /\ UNCHANGED <<nodes, connections, xmlPaths, nextNodes, inDegree, queue,
                   order, nodeOrder, sortedNodes, parseResult, warnings, xi,
                   tempRawNodes, rawNodeData, procSorted, pi, processedNodeMap,
                   processedNodes>>

(***************************************************************************)
(* The SQL modal: convertSelectedNodeToSQL and the generators it calls.    *)
(* A table name is modelled by the id of the node it names (InputTable for *)
(* the defaults "input_table", "left_input"); a generator's result by      *)
(* whether it is an error text, the table in FROM, the predecessor whose   *)
(* schema was read, the selected column names and the two join inputs.     *)
(***************************************************************************)
InputTable == 0

SqlError ==
    [isError |-> TRUE, from |-> InputTable, columnsOf |-> NoId, columns |-> <<>>,
     left |-> NoId, right |-> NoId]

SqlSelect(from, of, cols) ==
    [isError |-> FALSE, from |-> from, columnsOf |-> of, columns |-> cols,
     left |-> NoId, right |-> NoId]

SqlJoin(l, r, cols) ==
    [isError |-> FALSE, from |-> l, columnsOf |-> NoId, columns |-> cols,
     left |-> l, right |-> r]

findAllPreviousNodes(currentNodeId, allNodes) ==
    SelectSeq(allNodes, LAMBDA n : n.id # currentNodeId /\ Includes(n.nextNodes, currentNodeId))

\* the helper every single-input generator carries a copy of
findPredecessorNodes(currentNodeId, ctx) ==
    SelectSeq(ctx, LAMBDA n : Includes(n.nextNodes, currentNodeId))

\* predecessors[0].nodes, or [] without a predecessor
FirstPredecessorColumns(preds) == IF preds = <<>> THEN <<>> ELSE preds[1].nodes

FirstPredecessorId(preds) == IF preds = <<>> THEN NoId ELSE preds[1].id

\* nodeConfig carries no id, so the generator looks for the predecessors of
\* undefined
convertStringToNumberNodeToSQL(nodeConfigId, previousNodeName, ctx) ==
    LET preds == findPredecessorNodes(nodeConfigId, ctx)
    IN IF preds = <<>> THEN SqlError
       ELSE IF preds[1].nodes = <<>> THEN SqlError
       ELSE SqlSelect(previousNodeName, preds[1].id, preds[1].nodes)

convertColumnRenamerNodeToSQL(cfg, nodeId, previousNodeName, ctx) ==
    LET preds == findPredecessorNodes(nodeId, ctx)
        inputColumnNames == FirstPredecessorColumns(preds)
        hasRule == "oldName" \in DOMAIN cfg /\ cfg.oldName # "" /\ cfg.newName # ""
    IN IF ~cfg.hasModel THEN SqlError
       ELSE IF inputColumnNames = <<>> THEN SqlError
       ELSE SqlSelect(previousNodeName, preds[1].id,
                [i \in DOMAIN inputColumnNames |->
                    IF hasRule /\ inputColumnNames[i] = cfg.oldName
                    THEN cfg.newName ELSE inputColumnNames[i]])

\* the select list after an APPEND of column col: an input column of that
\* name is overwritten in place, otherwise the column is pushed
AppendToSelect(inputColumnNames, col) ==
    IF Includes(inputColumnNames, col) THEN inputColumnNames
    ELSE Append(inputColumnNames, col)

convertExpressionNodeToSQL(cfg, nodeId, previousNodeName, ctx) ==
    LET preds == findPredecessorNodes(nodeId, ctx)
        inputColumnNames == FirstPredecessorColumns(preds)
    IN IF ~cfg.hasModel THEN SqlError
       ELSE IF "createdColumn" \notin DOMAIN cfg
       THEN SqlSelect(previousNodeName, NoId, <<"*">>)
       ELSE SqlSelect(previousNodeName, FirstPredecessorId(preds),
                      AppendToSelect(inputColumnNames, cfg.createdColumn))

convertRuleEngineNodeToSQL(cfg, nodeId, previousNodeName, ctx) ==
    LET preds == findPredecessorNodes(nodeId, ctx)
        inputColumnNames == FirstPredecessorColumns(preds)
    IN IF ~cfg.hasModel THEN SqlSelect(previousNodeName, NoId, <<"*">>)
       ELSE IF "createdColumn" \notin DOMAIN cfg
       THEN SqlSelect(previousNodeName, NoId, <<"*">>)
       ELSE IF inputColumnNames = <<>>
       THEN SqlSelect(previousNodeName, FirstPredecessorId(preds), <<"*", cfg.createdColumn>>)
       ELSE SqlSelect(previousNodeName, preds[1].id,
                      AppendToSelect(inputColumnNames, cfg.createdColumn))

convertStringManipulationNodeToSQL(cfg, nodeId, previousNodeName, ctx) ==
    LET preds == findPredecessorNodes(nodeId, ctx)
        inputColumnNames == FirstPredecessorColumns(preds)
    IN IF ~cfg.hasModel THEN SqlError
       ELSE IF "createdColumn" \notin DOMAIN cfg THEN SqlError
       ELSE SqlSelect(previousNodeName, FirstPredecessorId(preds),
                      AppendToSelect(inputColumnNames, cfg.createdColumn))

\* findSinglePredecessorDetails and the generator built on it
convertRowFilterNodeToSQL(cfg, nodeId, ctx) ==
    LET preds == findPredecessorNodes(nodeId, ctx)
    IN IF nodeId = NoId THEN SqlError
       ELSE IF ~cfg.hasModel THEN SqlError
       ELSE IF preds = <<>> THEN SqlError
       ELSE SqlSelect(preds[1].id, preds[1].id, <<"*">>)

\* the names convertColumnMergerNodeToSQL selects, for settings that pass
\* its parameter check
MergerSelectColumns(cfg, inputColumnNames) ==
    IF cfg.outputPlacement = "ReplaceBoth"
    THEN Append(SelectSeq(inputColumnNames,
                          LAMBDA c : c # cfg.primaryColumn /\ c # cfg.secondaryColumn),
                cfg.outputName)
    ELSE IF cfg.outputPlacement = "ReplacePrimary"
    THEN Append(SelectSeq(inputColumnNames, LAMBDA c : c # cfg.primaryColumn),
                cfg.outputName)
    ELSE Append(inputColumnNames, cfg.outputName)

convertColumnMergerNodeToSQL(cfg, previousNodeName, inputColumnNames) ==
    IF ~cfg.hasModel THEN SqlError
    ELSE IF cfg.primaryColumn = "" \/ cfg.secondaryColumn = ""
            \/ cfg.outputPlacement = "" \/ cfg.outputName = ""
    THEN SqlError
    ELSE IF inputColumnNames = <<>> /\ cfg.outputPlacement \in {"ReplaceBoth", "ReplacePrimary"}
    THEN SqlError
    ELSE SqlSelect(previousNodeName, NoId, MergerSelectColumns(cfg, inputColumnNames))

(***************************************************************************)
(* convertJoinerNodeToSQL                                                  *)
(***************************************************************************)
NoPort == -1     \* targetPortIndex is undefined or null

\* a slot of findJoinerPredecessorDetails: null, the marker "error", or the
\* details of a predecessor
NullDetail == [tag |-> "null", id |-> NoId, columns |-> <<>>]

ErrorDetail == [tag |-> "error", id |-> NoId, columns |-> <<>>]

PredecessorDetail(n) == [tag |-> "node", id |-> n.id, columns |-> n.nodes]

\* nextNodes.find(conn => conn && String(conn.targetNodeId) === currentIdStr):
\* an entry that is a plain id has no targetNodeId and never matches
IsConnectionObject(conn) == "targetNodeId" \in DOMAIN conn

ConnectionToJoiner(n, currentNodeId) ==
    SelectSeq(n.nextNodes,
              LAMBDA conn : IsConnectionObject(conn) /\ conn.targetNodeId = currentNodeId)

\* the body of allProcessedNodes.forEach for one potential predecessor
JoinerVisit(slots, n, currentNodeId) ==
    LET found == ConnectionToJoiner(n, currentNodeId)
    IN IF found = <<>> THEN slots
       ELSE IF found[1].targetPortIndex = NoPort \/ ~n.sqlAlias
       THEN [slots EXCEPT !.left = ErrorDetail]
       ELSE IF found[1].targetPortIndex = 0
       THEN [slots EXCEPT !.left = PredecessorDetail(n)]
       ELSE IF found[1].targetPortIndex = 1
       THEN [slots EXCEPT !.right = PredecessorDetail(n)]
       ELSE slots

RECURSIVE JoinerFold(_, _, _)
JoinerFold(slots, ctx, currentNodeId) ==
    IF ctx = <<>> THEN slots
    ELSE JoinerFold(JoinerVisit(slots, Head(ctx), currentNodeId), Tail(ctx), currentNodeId)

findJoinerPredecessorDetails(currentNodeId, isArray, ctx) ==
    IF ~isArray THEN [left |-> NullDetail, right |-> NullDetail]
    ELSE LET slots == JoinerFold([left |-> NullDetail, right |-> NullDetail], ctx, currentNodeId)
         IN IF slots.left.tag = "error" \/ slots.right.tag = "error"
            THEN [left |-> NullDetail, right |-> NullDetail]
            ELSE slots

\* finalSelectParts: the left columns, then the right columns without the
\* right join key when mergeJoinColumns is set; a right column whose name is
\* taken gets the duplicate suffix
JoinerSelectColumns(cfg, leftCols, rightCols) ==
    leftCols \o
    [i \in DOMAIN SelectSeq(rightCols,
                            LAMBDA c : ~(cfg.mergeJoinColumns /\ c = cfg.rightTableColumn)) |->
        LET c == SelectSeq(rightCols,
                           LAMBDA d : ~(cfg.mergeJoinColumns /\ d = cfg.rightTableColumn))[i]
        IN IF Includes(leftCols, c) THEN c \o " (Right)" ELSE c]

\* nodeId is nodeConfigJson.id; isArray tells whether the second argument is
\* an array
convertJoinerNodeToSQL(cfg, nodeId, isArray, ctx) ==
    IF cfg.factory # Joiner3Factory THEN SqlError
    ELSE IF nodeId = NoId THEN SqlError
    ELSE IF ~cfg.hasModel THEN SqlError
    ELSE LET d == findJoinerPredecessorDetails(nodeId, isArray, ctx)
         IN IF d.left.tag # "node" \/ d.right.tag # "node" THEN SqlError
            ELSE IF "leftTableColumn" \notin DOMAIN cfg THEN SqlError
            ELSE LET cols == JoinerSelectColumns(cfg, d.left.columns, d.right.columns)
                 IN IF cols = <<>> THEN SqlError
                    ELSE SqlJoin(d.left.id, d.right.id, cols)

SourceFile == -1   \* the table a reader selects from: the file it reads

convertReaderNodeToSQL(cfg) ==
    IF ~cfg.hasModel \/ ~cfg.hasFileName \/ cfg.columns = <<>> THEN SqlError
    ELSE SqlSelect(SourceFile, NoId, cfg.columns)

convertColumnFilterNodeToSQL(cfg, previousNodeName) ==
    LET finalColumns == SelectSeq(cfg.included, LAMBDA c : ~Includes(cfg.excluded, c))
    IN IF ~cfg.hasModel THEN SqlError
       ELSE IF finalColumns = <<>> THEN SqlSelect(previousNodeName, NoId, <<"*">>)
       ELSE SqlSelect(previousNodeName, NoId, finalColumns)

\* node names are modelled by node ids
PredecessorNames(predecessors) == [i \in DOMAIN predecessors |-> predecessors[i].id]

\* faulty variant: the node ordered just before the selected one is cut off
ContextForSQLShort(sel, processed) ==
    SelectSeq(processed,
              LAMBDA n : n.order # NoOrder /\ sel.order # NoOrder /\ n.order < sel.order - 1)

\* the filter that keeps the nodes processed before the selected one
ContextForSQL(sel, processed) ==
    SelectSeq(processed,
              LAMBDA n : n.order # NoOrder /\ sel.order # NoOrder /\ n.order < sel.order)

\* the switch on the factory; nodeConfig is selectedNode.config, which has no
\* id property
convertSelectedNodeToSQL(cfg, predecessorNames, ctx, sel) ==
    LET singlePreviousName == IF predecessorNames # <<>> THEN predecessorNames[1]
                              ELSE InputTable
    IN IF cfg.factory = "" THEN SqlError
       ELSE IF cfg.factory = StringToNumberFactory
       THEN convertStringToNumberNodeToSQL(NoId, singlePreviousName, ctx)
       ELSE IF IsReaderFactory(cfg.factory) THEN convertReaderNodeToSQL(cfg)
       ELSE IF cfg.factory = ColumnFilterFactory
       THEN convertColumnFilterNodeToSQL(cfg, singlePreviousName)
       ELSE IF cfg.factory = RowFilterFactory
       THEN convertRowFilterNodeToSQL(sel.config, sel.id, ctx)
       ELSE IF cfg.factory \in {JoinerFactory, Joiner3Factory}
       THEN convertJoinerNodeToSQL(cfg, NoId, FALSE, <<>>)
       ELSE IF cfg.factory = ColumnMergerFactory
       THEN convertColumnMergerNodeToSQL(cfg, singlePreviousName, <<>>)
       ELSE IF cfg.factory = StringManipulationFactory
       THEN convertStringManipulationNodeToSQL(cfg, sel.id, singlePreviousName, ctx)
       ELSE IF cfg.factory = ExpressionFactory
       THEN convertExpressionNodeToSQL(sel.config, sel.id, singlePreviousName, ctx)
       ELSE IF cfg.factory = RuleEngineFactory
       THEN convertRuleEngineNodeToSQL(sel.config, sel.id, singlePreviousName, ctx)
       ELSE IF cfg.factory = OtherFactory
       THEN convertColumnRenamerNodeToSQL(sel.config, sel.id, singlePreviousName, ctx)
       ELSE SqlError

\* a click on a row of the table: setSelectedNode(record), and the modal
\* renders the SQL of the selected node
ShowSQL ==
    /\ pc = "done"
    /\ \E i \in DOMAIN processedNodes :
          LET sel == processedNodes[i]
              predecessors == findAllPreviousNodes(sel.id, processedNodes)
              ctx == ContextForSQL(sel, processedNodes)
          IN /\ selectedNode' = sel.id
             /\ allProcessedNodes' = ctx
             /\ sqlResult' = convertSelectedNodeToSQL(sel.config,
                                 PredecessorNames(predecessors), ctx, sel)
    /\ UNCHANGED <<nodes, connections, xmlPaths, pc, nextNodes, inDegree, queue,
                   order, nodeOrder, sortedNodes, parseResult, warnings, xi,
                   tempRawNodes, rawNodeData, procSorted, pi, processedNodeMap,
                   processedNodes, destPorts>>
    /\ UNCHANGED rerunVars
    /\ UNCHANGED callVars

\* the id of the joiner in a direct call of convertJoinerNodeToSQL
JoinerId == MaxJoinerInputs + 1

\* convertJoinerNodeToSQL called as its documentation asks: nodeConfigJson
\* with an id, and an array of nodes whose nextNodes hold connection objects
CallJoiner ==
    /\ pc = "call"
    /\ selectedNode' = JoinerId
    /\ sqlResult' = convertJoinerNodeToSQL(JoinerConfig(Joiner3Factory, "a", "a", TRUE),
                                           JoinerId, TRUE, allProcessedNodes)
    /\ pc' = "called"
    /\ UNCHANGED <<nodes, connections, xmlPaths, nextNodes, inDegree, queue,
                   order, nodeOrder, sortedNodes, parseResult, warnings, xi,
                   tempRawNodes, rawNodeData, procSorted, pi, processedNodeMap,
                   processedNodes, destPorts, allProcessedNodes>>
    /\ UNCHANGED rerunVars
    /\ UNCHANGED callVars

(***************************************************************************)
(* The settings accessors. An entry of the parsed settings tree carries    *)
(* its attributes under _attributes (attrs) or as plain properties; a JS   *)
(* value is null, a boolean or a string.                                   *)
(***************************************************************************)
Entry(attrs, key, type, value, isnull) ==
    [attrs |-> attrs, key |-> key, type |-> type, value |-> value, isnull |-> isnull]

\* an entry property: absent, one entry object, or an array of entries
EntryProp(kind, entries) == [kind |-> kind, entries |-> entries]

JsNull == [type |-> "null", bool |-> FALSE, str |-> ""]

JsBoolean(b) == [type |-> "boolean", bool |-> b, str |-> ""]

JsString(v) == [type |-> "string", bool |-> FALSE, str |-> v]

\* faulty variant: the value is returned as it is, the empty string included
getEntryValueRaw(entryProp, key) ==
    IF entryProp.kind = "absent" THEN JsNull
    ELSE LET found == SelectSeq(entryProp.entries, LAMBDA e : e.attrs /\ e.key = key)
         IN IF found = <<>> THEN JsNull
            ELSE IF found[1].isnull = "true" THEN JsNull
            ELSE IF found[1].type = "xboolean" THEN JsBoolean(found[1].value = "true")
            ELSE JsString(found[1].value)

getEntryValue(entryProp, key) ==
    IF entryProp.kind = "absent" THEN JsNull
    ELSE LET found == SelectSeq(entryProp.entries, LAMBDA e : e.attrs /\ e.key = key)
         IN IF found = <<>> THEN JsNull
            ELSE IF found[1].isnull = "true" THEN JsNull
            ELSE IF found[1].type = "xboolean" THEN JsBoolean(found[1].value = "true")
            ELSE IF found[1].value = "" THEN JsNull
            ELSE JsString(found[1].value)

CallGetEntryValue ==
    /\ pc = "entry"
    /\ callResult' = getEntryValue(callArgs, "k")
    /\ pc' = "entryDone"
    /\ UNCHANGED callArgs
    /\ UNCHANGED sqlVars
    /\ UNCHANGED rerunVars
    /\ UNCHANGED <<nodes, connections, xmlPaths, nextNodes, inDegree, queue,
                   order, nodeOrder, sortedNodes, parseResult, warnings, xi,
                   tempRawNodes, rawNodeData, procSorted, pi, processedNodeMap,
                   processedNodes>>

\* String(i) and parseInt for the sizes and positions of a settings array
ToDigit(i) == <<"0", "1", "2", "3", "4">>[i + 1]

ParseDigit(str) ==
    IF \E i \in 0..4 : ToDigit(i) = str
    THEN CHOOSE i \in 0..4 : ToDigit(i) = str
    ELSE 0

\* getArrayValuesFromConfig of src/common: the values of the entries that
\* have _attributes, another key than "array-size" and a non-empty value
getArrayValuesFromConfig(configNode) ==
    IF configNode.kind = "absent" THEN <<>>
    ELSE LET kept == SelectSeq(configNode.entries,
                               LAMBDA e : e.attrs /\ e.key # "array-size" /\ e.value # "")
         IN [i \in DOMAIN kept |-> kept[i].value]

\* entries.find((e) => e.key === k): the plain property key is read, which
\* an entry that keeps its attributes under _attributes does not have
FindByPlainKey(entries, k) == SelectSeq(entries, LAMBDA e : ~e.attrs /\ e.key = k)

RECURSIVE PlainValuesFrom(_, _, _)
PlainValuesFrom(entries, i, size) ==
    IF i >= size THEN <<>>
    ELSE LET valueEntry == FindByPlainKey(entries, ToDigit(i))
         IN (IF valueEntry # <<>> /\ valueEntry[1].type = "xstring"
             THEN <<valueEntry[1].value>> ELSE <<>>)
            \o PlainValuesFrom(entries, i + 1, size)

\* getArrayValuesFromConfig of convertJoinerJSONToSQL.js
getArrayValuesOfJoiner(configNode) ==
    IF configNode.kind = "absent" THEN <<>>
    ELSE LET sizeEntry == FindByPlainKey(configNode.entries, "array-size")
             size == IF sizeEntry # <<>> THEN ParseDigit(sizeEntry[1].value) ELSE 0
         IN PlainValuesFrom(configNode.entries, 0, size)

CallGetArrayValuesFromConfig ==
    /\ pc = "array"
    /\ callResult' = getArrayValuesFromConfig(callArgs)
    /\ pc' = "arrayDone"
    /\ UNCHANGED callArgs
    /\ UNCHANGED sqlVars
    /\ UNCHANGED rerunVars
    /\ UNCHANGED <<nodes, connections, xmlPaths, nextNodes, inDegree, queue,
                   order, nodeOrder, sortedNodes, parseResult, warnings, xi,
                   tempRawNodes, rawNodeData, procSorted, pi, processedNodeMap,
                   processedNodes>>

CallGetArrayValuesOfJoiner ==
    /\ pc = "array"
    /\ callResult' = getArrayValuesOfJoiner(callArgs)
    /\ pc' = "arrayDoneJoiner"
    /\ UNCHANGED callArgs
    /\ UNCHANGED sqlVars
    /\ UNCHANGED rerunVars
    /\ UNCHANGED <<nodes, connections, xmlPaths, nextNodes, inDegree, queue,
                   order, nodeOrder, sortedNodes, parseResult, warnings, xi,
                   tempRawNodes, rawNodeData, procSorted, pi, processedNodeMap,
                   processedNodes>>

Next ==
    \/ BuildThrow
    \/ BuildGraph
    \/ Dequeue
    \/ DequeueUndefined
    \/ ParseReturn
    \/ UploadItem
    \/ UploadSkip
    \/ UploadThrow
    \/ UploadDone
    \/ EffectStart
    \/ ProcessNode
    \/ ProcessFinish
    \/ ShowSQL
    \/ CallJoiner
    \/ Rerun
    \/ CallGetEntryValue
    \/ CallGetArrayValuesFromConfig
    \/ CallGetArrayValuesOfJoiner

(***************************************************************************)
(* Initial states: the uploaded archive (workflow.knime + settings files)  *)
(***************************************************************************)
Connection(S, T) == [sourceID : S, destID : T]

ColumnLists == {s \in SeqsUpTo(Cols, MaxCols) : IsInjective(s)}

\* the column lists of the readers that feed a flow: none, or MaxCols names
UpstreamLists == {s \in ColumnLists : Len(s) \in {0, MaxCols}}

\* a settings list that names a column twice
RepeatedLists == {<<"a", "a">>}

SettingsFile(id, cfg) == [nodeId |-> id, config |-> cfg]

\* the configs tried on the last node of a flow
StudyConfigs ==
    {ReaderConfig(CSVReaderFactory, cols) : cols \in ColumnLists}
    \cup {ReaderConfig(ExcelReaderFactory, cols) : cols \in UpstreamLists}
    \cup {ReaderConfig(CSVReaderFactory, cols) : cols \in RepeatedLists}
    \cup {FilterConfig(inc, <<>>) : inc \in RepeatedLists}
    \cup {BrokenReaderConfig, PlainConfig("")}
    \cup {FilterConfig(inc, exc) : inc \in UpstreamLists, exc \in SeqsUpTo(Cols, 1)}
    \cup {MergerConfig("a", "b", pl, on) :
            pl \in {"ReplacePrimary", "ReplaceSecondary", "ReplaceBoth", "AppendAsNewColumn"},
            on \in Cols \cup {""}}
    \cup {PlainConfig(f) : f \in {RowFilterFactory, StringToNumberFactory, JoinerFactory, OtherFactory}}
    \cup {RenamerConfig("a", "c")}
    \cup {ScriptConfig(f, "c") : f \in {ExpressionFactory, RuleEngineFactory, StringManipulationFactory}}

\* everything but the three inputs
InitPipeline ==
    /\ pc = "build"
    /\ nextNodes = EmptyMap
    /\ inDegree = EmptyMap
    /\ queue = <<>>
    /\ order = 0
    /\ nodeOrder = EmptyMap
    /\ sortedNodes = <<>>
    /\ parseResult = "none"
    /\ warnings = {}
    /\ xi = 1
    /\ tempRawNodes = <<>>
    /\ rawNodeData = <<>>
    /\ procSorted = <<>>
    /\ pi = 1
    /\ processedNodeMap = EmptyMap
    /\ processedNodes = <<>>
    /\ selectedNode = NoId
    /\ allProcessedNodes = <<>>
    /\ sqlResult = SqlError
    /\ firstRun = <<>>
    /\ reruns = 0
    /\ callArgs = <<>>
    /\ callResult = <<>>

\* the destPort entries of a workflow whose connections all end at port 1
DefaultPorts(conns) == [k \in DOMAIN conns |-> 1]

\* any node set, declared by ascending or by descending id, any connection
\* list (dangling ends, cycles and parallel connections included); no
\* settings files
InitGraph ==
    /\ \E S \in SUBSET NodeIds \ {{}} : nodes \in {AscendingSeq(S), Reverse(AscendingSeq(S))}
    /\ connections \in SeqsUpTo(Connection(NodeIds, NodeIds), MaxConns)
    /\ destPorts = DefaultPorts(connections)
    /\ xmlPaths = <<>>

\* the settings config the archive holds for node id: a reader when nothing
\* is connected into it, a pass-through node otherwise
RoleConfig(id, conns) ==
    IF \E k \in DOMAIN conns : conns[k].destID = id
    THEN PlainConfig(OtherFactory)
    ELSE ReaderConfig(CSVReaderFactory, <<"a">>)

\* any node set, settings files for any set of ids (declared or not), with
\* or without a settings file in a folder that carries no node id
InitUpload ==
    /\ \E S \in SUBSET UploadIds \ {{}} : nodes = AscendingSeq(S)
    /\ connections \in SeqsUpTo(Connection(UploadIds, UploadIds), MaxUploadConns)
    /\ destPorts = DefaultPorts(connections)
    /\ \E A \in SUBSET UploadIds, stray \in BOOLEAN :
          LET ids == AscendingSeq(A)
              files == [i \in DOMAIN ids |-> SettingsFile(ids[i], RoleConfig(ids[i], connections))]
          IN xmlPaths = IF stray
                        THEN <<SettingsFile(NoId, PlainConfig(OtherFactory))>> \o files
                        ELSE files

\* readers feeding one node of any kind
InitFlow ==
    \E n \in 1..MaxFlowNodes :
        /\ nodes = [i \in 1..n |-> i]
        /\ connections \in SeqsUpTo(Connection(1..n, {n}), MaxFlowConns)
        /\ destPorts = DefaultPorts(connections)
        /\ \E up \in [1..(n-1) -> UpstreamLists], cfg \in StudyConfigs :
              xmlPaths = [i \in 1..n |->
                             IF i < n THEN SettingsFile(i, ReaderConfig(CSVReaderFactory, up[i]))
                             ELSE SettingsFile(i, cfg)]

\* the column list of the reader connected to a given port of a fan-in
PortColumns(port) ==
    IF port = 0 THEN <<"a", "b">> ELSE IF port = 1 THEN <<"a", "c">> ELSE <<"b">>

Orderings(S) == {s \in [1..Cardinality(S) -> S] : IsInjective(s)}

\* the configs tried on the node a fan-in ends at
FanInConfigs ==
    {JoinerConfig(Joiner3Factory, "a", "a", TRUE), RenamerConfig("a", "c"),
     PlainConfig(StringToNumberFactory), PlainConfig(RowFilterFactory)}
    \cup {ScriptConfig(f, "c") : f \in {ExpressionFactory, RuleEngineFactory, StringManipulationFactory}}

\* MaxFanIn nodes connected into one node j, the connections declared in any
\* order and ending at the ports 0, 1, ... in any assignment; optionally one
\* more connection, declared last, between two of the predecessors, whose
\* target is then a Column Filter instead of a reader
InitFanIn ==
    \E j \in 1..(MaxFanIn + 1) :
        LET ids   == 1..(MaxFanIn + 1)
            preds == ids \ {j}
        IN /\ nodes \in {AscendingSeq(ids), Reverse(AscendingSeq(ids))}
           /\ \E into \in Orderings(preds),
                 port \in Orderings(0..(MaxFanIn - 1)),
                 chain \in {<<>>} \cup {<<c>> : c \in {d \in Connection(preds, preds) :
                                                         d.sourceID # d.destID}},
                 cfg \in FanInConfigs :
                 LET portOf(p) == port[CHOOSE i \in DOMAIN into : into[i] = p]
                     fedByChain(p) == chain # <<>> /\ chain[1].destID = p
                 IN /\ connections = [i \in DOMAIN into |-> [sourceID |-> into[i], destID |-> j]]
                                      \o chain
                    /\ destPorts = port \o DefaultPorts(chain)
                    /\ xmlPaths = [i \in ids |->
                           IF i = j THEN SettingsFile(i, cfg)
                           ELSE IF fedByChain(i)
                           THEN SettingsFile(i, FilterConfig(PortColumns(portOf(i)), <<>>))
                           ELSE SettingsFile(i, ReaderConfig(CSVReaderFactory, PortColumns(portOf(i))))]

\* a single-input node at the head of a workflow: nothing is connected into
\* node 1, which feeds a reader over one connection or two parallel ones;
\* with or without a third node, a reader connected to nothing
InitHeadFlow ==
    \E beside \in BOOLEAN :
        /\ nodes = IF beside THEN <<1, 2, 3>> ELSE <<1, 2>>
        /\ connections \in {<<[sourceID |-> 1, destID |-> 2]>>,
                            <<[sourceID |-> 1, destID |-> 2], [sourceID |-> 1, destID |-> 2]>>}
        /\ destPorts = DefaultPorts(connections)
        /\ \E cfg \in FanInConfigs :
              xmlPaths = <<SettingsFile(1, cfg),
                          SettingsFile(2, ReaderConfig(CSVReaderFactory, <<"a", "b">>))>>
                         \o (IF beside
                             THEN <<SettingsFile(3, ReaderConfig(CSVReaderFactory, <<"a">>))>>
                             ELSE <<>>)

\* an entry of the array convertJoinerNodeToSQL documents: a node with a
\* connection object into the joiner
JoinerInput(id, port, alias) ==
    [id |-> id, sqlAlias |-> alias,
     nodes |-> PortColumns(port),
     nextNodes |-> <<[targetNodeId |-> JoinerId, targetPortIndex |-> port]>>]

\* a direct call of convertJoinerNodeToSQL: up to MaxJoinerInputs nodes
\* connected into the joiner, listed in any order, each connection with a
\* target port 0, 1, 2 or none, at most one node without sqlAlias
InitJoinerCall ==
    /\ pc = "call"
    /\ \E k \in 0..MaxJoinerInputs :
          \E ids \in Orderings(1..k), ports \in [1..k -> {NoPort, 0, 1, 2}],
             noAlias \in {S \in SUBSET (1..k) : Cardinality(S) <= 1} :
             allProcessedNodes =
                 [i \in 1..k |-> JoinerInput(ids[i], ports[i], i \notin noAlias)]
    /\ nodes = <<>> /\ connections = <<>> /\ destPorts = <<>> /\ xmlPaths = <<>>
    /\ nextNodes = EmptyMap /\ inDegree = EmptyMap /\ queue = <<>> /\ order = 0
    /\ nodeOrder = EmptyMap /\ sortedNodes = <<>> /\ parseResult = "none"
    /\ warnings = {} /\ xi = 1 /\ tempRawNodes = <<>> /\ rawNodeData = <<>>
    /\ procSorted = <<>> /\ pi = 1 /\ processedNodeMap = EmptyMap
    /\ processedNodes = <<>> /\ selectedNode = NoId /\ sqlResult = SqlError
    /\ firstRun = <<>> /\ reruns = 0
    /\ callArgs = <<>> /\ callResult = <<>>

\* the entries a settings tree can hold under the key asked for or another:
\* with or without the explicit-null tag, boolean-typed or string-typed, with
\* the value "true", the empty string or another string; and an entry
\* without _attributes
Entries ==
    {Entry(TRUE, k, t, v, n) : k \in {"k", "other"}, t \in {"xboolean", "xstring"},
                               v \in {"true", "", "v"}, n \in {"true", "false"}}
    \cup {Entry(FALSE, "k", "xstring", "v", "false")}

\* the variables no accessor call touches
NoUpload ==
    /\ nodes = <<>> /\ connections = <<>> /\ destPorts = <<>> /\ xmlPaths = <<>>
    /\ nextNodes = EmptyMap /\ inDegree = EmptyMap /\ queue = <<>> /\ order = 0
    /\ nodeOrder = EmptyMap /\ sortedNodes = <<>> /\ parseResult = "none"
    /\ warnings = {} /\ xi = 1 /\ tempRawNodes = <<>> /\ rawNodeData = <<>>
    /\ procSorted = <<>> /\ pi = 1 /\ processedNodeMap = EmptyMap
    /\ processedNodes = <<>> /\ selectedNode = NoId /\ sqlResult = SqlError
    /\ allProcessedNodes = <<>> /\ firstRun = <<>> /\ reruns = 0

\* a direct call getEntryValue(entryProp, "k"): entryProp missing, one entry
\* object, or an array of up to MaxEntries entries
InitEntryCall ==
    /\ pc = "entry"
    /\ \/ callArgs = EntryProp("absent", <<>>)
       \/ \E e \in Entries : callArgs = EntryProp("object", <<e>>)
       \/ \E es \in SeqsUpTo(Entries, MaxEntries) : callArgs = EntryProp("array", es)
    /\ callResult = <<>>
    /\ NoUpload

\* the i-th name of a settings array
ArrayValue(i) == <<"a", "b", "c", "d">>[i + 1]

\* the entries of a settings array of n names: the array-size entry, the
\* entries "0" .. "n-1" (the last one integer-typed when lastInt is set), and
\* a stray metadata entry when stray is set; all of them carry their
\* attributes under _attributes (compact) or as plain properties
ArrayEntrySet(n, compact, stray, lastInt) ==
    {Entry(compact, "array-size", "xint", ToDigit(n), "false")}
    \cup {Entry(compact, ToDigit(i), IF lastInt /\ i = n - 1 THEN "xint" ELSE "xstring",
                 ArrayValue(i), "false") : i \in 0..(n - 1)}
    \cup (IF stray THEN {Entry(compact, "meta", "xstring", "m", "false")} ELSE {})

\* a direct call getArrayValuesFromConfig(configNode): the config node of a
\* settings array of up to MaxArraySize names, its entries in any order
InitArrayCall ==
    /\ pc = "array"
    /\ \E n \in 0..MaxArraySize, compact \in BOOLEAN, stray \in BOOLEAN, lastInt \in BOOLEAN :
          \E es \in Orderings(ArrayEntrySet(n, compact, stray, lastInt)) :
              callArgs = EntryProp("array", es)
    /\ callResult = <<>>
    /\ NoUpload

Init ==
    \/ InitPipeline /\ (InitGraph \/ InitUpload \/ InitFlow \/ InitFanIn \/ InitHeadFlow)
    \/ InitJoinerCall
    \/ InitEntryCall
    \/ InitArrayCall

Spec == Init /\ [][Next]_vars

\* parseWorkflowKnime is synchronous code: once called it runs each of its
\* steps until it returns or throws
ParserStep == BuildThrow \/ BuildGraph \/ Dequeue \/ DequeueUndefined \/ ParseReturn

LiveSpec == Spec /\ WF_vars(ParserStep)

(***************************************************************************)
(* Graph notions used by the properties                                    *)
(***************************************************************************)
Edges == {<<connections[k].sourceID, connections[k].destID>> : k \in DOMAIN connections}

RECURSIVE ReachableSet(_)
ReachableSet(S) ==
    LET next == S \cup {e[2] : e \in {f \in Edges : f[1] \in S}}
    IN IF next = S THEN S ELSE ReachableSet(next)

\* the ids reached from a over one or more connections
Descendants(a) == ReachableSet({e[2] : e \in {f \in Edges : f[1] = a}})

OnCycle(a) == a \in Descendants(a)

NoDangling ==
    \A k \in DOMAIN connections :
        connections[k].sourceID \in Declared /\ connections[k].destID \in Declared

Acyclic == \A a \in NodeIds : ~OnCycle(a)

ParseFinished == parseResult # "none"

Ordered == DOMAIN nodeOrder

(***************************************************************************)
(* C1: on an acyclic graph whose connections all reference declared nodes, *)
(* every connection (s -> t) has order[s] < order[t] once                  *)
(* parseWorkflowKnime has returned, parallel connections included.         *)
(***************************************************************************)
C1_TopologicalOrder ==
    (parseResult = "returned" /\ Acyclic /\ NoDangling) =>
        \A k \in DOMAIN connections :
            /\ connections[k].sourceID \in Ordered
            /\ connections[k].destID \in Ordered
            /\ nodeOrder[connections[k].sourceID] < nodeOrder[connections[k].destID]

\* a returned acyclic graph with two parallel connections
C1_Witness ==
    /\ parseResult = "returned" /\ Acyclic /\ NoDangling
    /\ \E j, k \in DOMAIN connections : j # k /\ connections[j] = connections[k]

(***************************************************************************)
(* C2: on a graph with a cycle (self-loops included) fewer nodes are       *)
(* ordered than were declared, and no node on a cycle, nor any node with a *)
(* cycle node among its ancestors, is ever ordered or returned.            *)
(***************************************************************************)
CycleNodes == {a \in Declared : OnCycle(a)}

CycleTainted == {n \in Declared : \E a \in CycleNodes : n = a \/ n \in Descendants(a)}

C2_CycleNeverOrdered ==
    /\ \A n \in CycleTainted : n \notin Ordered /\ ~Includes(sortedNodes, n)
    /\ (ParseFinished /\ CycleNodes # {}) => Cardinality(Ordered) < Len(nodes)

\* a returned graph with a cycle, a node downstream of it and an ordered node
C2_Witness ==
    /\ parseResult = "returned"
    /\ CycleNodes # {}
    /\ CycleTainted # CycleNodes
    /\ Ordered # {}

(***************************************************************************)
(* C3: processWorkflowData resolves in ascending order: when a node's      *)
(* input schema is about to be gathered, every predecessor that has a      *)
(* record is already stored in processedNodeMap, and the warning about a   *)
(* predecessor missing from the processed map is never issued.             *)
(***************************************************************************)
C3_PredecessorsProcessedFirst ==
    /\ (pc = "resolve" /\ pi <= Len(procSorted)) =>
          /\ \A k \in DOMAIN connections :
                (/\ connections[k].destID = procSorted[pi].id
                 /\ connections[k].sourceID \in DOMAIN originalNodeMap(rawNodeData))
                => connections[k].sourceID \in DOMAIN processedNodeMap
          /\ \A i \in 1..(pi - 1) : procSorted[i].order < procSorted[pi].order
    /\ \A w \in warnings : w.msg # "Predecessor not found in processed map or has no columns"

\* a node with a recorded predecessor is about to be resolved, and the
\* archive listed the node before its predecessor
C3_Witness ==
    /\ pc = "resolve" /\ pi <= Len(procSorted)
    /\ \E k \in DOMAIN connections :
          /\ connections[k].destID = procSorted[pi].id
          /\ connections[k].sourceID \in DOMAIN processedNodeMap
    /\ \E i, j \in DOMAIN rawNodeData :
          /\ i < j
          /\ rawNodeData[i].id = procSorted[pi].id
          /\ Includes(rawNodeData[j].nextNodes, procSorted[pi].id)

(***************************************************************************)
(* Notions shared by the properties of the resolved output                 *)
(***************************************************************************)
Finished == pc \in {"done", "failed"}

\* the resolved record carries an unresolved flag that is set
IsFlaggedUnresolved(rec) == "unresolved" \in DOMAIN rec /\ rec.unresolved = TRUE

OutputIds == {processedNodes[i].id : i \in DOMAIN processedNodes}

IsDangling(c) == c.sourceID \notin Declared \/ c.destID \notin Declared

(***************************************************************************)
(* C4: every resolved node that is not a source kind has as output schema  *)
(* its gathered input schema without the names in removedColumns (input    *)
(* order kept), followed by the names of addedColumns not already present. *)
(***************************************************************************)
ExpectedTransformSchema(inputCols, removed, added) ==
    LET kept == SelectSeq(inputCols, LAMBDA c : ~Includes(removed, c))
    IN kept \o SelectSeq(Dedupe(added), LAMBDA c : ~Includes(kept, c))

C4_TransformSchema ==
    pc = "done" =>
        \A i \in DOMAIN processedNodes :
            LET rec == processedNodes[i]
            IN ~IsReaderFactory(rec.nodeType) =>
                  rec.nodes = ExpectedTransformSchema(
                                  GatherInputColumns(rec.previousNodes, processedNodeMap),
                                  rec.removedColumns, rec.addedColumns)

(***************************************************************************)
(* C5: a resolved node one of whose direct predecessors is absent from the *)
(* processed map, and every node downstream of such a node, is marked      *)
(* unresolved instead of being given a schema.                             *)
(***************************************************************************)
MissingPredecessorNodes ==
    {n \in Declared : \E k \in DOMAIN connections :
        /\ connections[k].destID = n
        /\ connections[k].sourceID # n
        /\ connections[k].sourceID \notin DOMAIN processedNodeMap}

UnresolvedTaint ==
    {n \in Declared : \E m \in MissingPredecessorNodes : n = m \/ n \in Descendants(m)}

C5_UnresolvedPropagates ==
    pc = "done" =>
        \A i \in DOMAIN processedNodes :
            processedNodes[i].id \in UnresolvedTaint => IsFlaggedUnresolved(processedNodes[i])

(***************************************************************************)
(* C6: when parseWorkflowKnime returned leaving some declared nodes         *)
(* without an order and every settings file is readable, the pipeline      *)
(* completes and every ordered node that has a settings file gets a        *)
(* resolved record, even when other settings files belong to nodes without *)
(* workflow info.                                                          *)
(***************************************************************************)
C6_PartialResults ==
    (/\ Finished
     /\ parseResult = "returned"
     /\ Declared \ Ordered # {}
     /\ \E i \in DOMAIN xmlPaths : xmlPaths[i].nodeId \in Ordered
     /\ \A i \in DOMAIN xmlPaths : ~getColumnNodes(xmlPaths[i].config, <<>>).isNull)
    => /\ pc = "done"
       /\ \A i \in DOMAIN xmlPaths :
             xmlPaths[i].nodeId \in Ordered =>
                \E j \in DOMAIN processedNodes :
                    /\ processedNodes[j].id = xmlPaths[i].nodeId
                    /\ processedNodes[j].order = nodeOrder[xmlPaths[i].nodeId]

(***************************************************************************)
(* C7: every declared node left without an order appears in the final      *)
(* resolved output, flagged unresolved.                                    *)
(***************************************************************************)
C7_UnorderedFlagged ==
    pc = "done" =>
        \A n \in Declared \ Ordered :
            \E i \in DOMAIN processedNodes :
                processedNodes[i].id = n /\ IsFlaggedUnresolved(processedNodes[i])

(***************************************************************************)
(* C8: once the graph builder has finished, every connection with an       *)
(* undeclared sourceID or destID has a diagnostic that names it.           *)
(***************************************************************************)
\* the one diagnostic of the pipeline that names a pair of node ids
NamesConnection(w, c) ==
    /\ w.msg = "Predecessor not found in processed map or has no columns"
    /\ w.node = c.destID
    /\ w.other = c.sourceID

C8_DanglingReported ==
    ParseFinished =>
        \A k \in DOMAIN connections :
            IsDangling(connections[k]) =>
                \E w \in warnings : NamesConnection(w, connections[k])

(***************************************************************************)
(* C9: parseWorkflowKnime never throws, whatever the connections           *)
(* reference, and when it returns every declared node that is not          *)
(* downstream of a dangling connection or a cycle has an order.            *)
(***************************************************************************)
DanglingTainted ==
    {n \in Declared : \E k \in DOMAIN connections :
        /\ IsDangling(connections[k])
        /\ (n = connections[k].destID \/ n \in Descendants(connections[k].destID))}

C9_ParseNeverThrows ==
    /\ parseResult # "thrown"
    /\ parseResult = "returned" =>
          \A n \in Declared \ (DanglingTainted \cup CycleTainted) : n \in Ordered

(***************************************************************************)
(* C10: the output schema of a reader node is the column list declared in  *)
(* its own settings, whatever input schema its predecessors feed it.       *)
(***************************************************************************)
C10_SourceIgnoresInput ==
    pc = "done" =>
        \A i \in DOMAIN processedNodes :
            LET rec == processedNodes[i]
            IN IsReaderFactory(rec.nodeType) => rec.nodes = rec.config.columns

(***************************************************************************)
(* C11: after processWorkflowData the resolved output schema of every      *)
(* node, source kind or transform kind, contains no column name twice.     *)
(***************************************************************************)
C11_NoDuplicateColumns ==
    pc = "done" =>
        \A i \in DOMAIN processedNodes : IsInjective(processedNodes[i].nodes)

(***************************************************************************)
(* C12: when a resolved node's addedColumns holds a name that is still in  *)
(* its input schema after removedColumns were filtered out, the output     *)
(* schema holds that name exactly once, at the position it had in the      *)
(* filtered input; the names that are new follow at the end, in            *)
(* addedColumns order.                                                     *)
(***************************************************************************)
\* the gathered input schema of a resolved record without its removedColumns
FilteredInput(rec) ==
    SelectSeq(GatherInputColumns(rec.previousNodes, processedNodeMap),
              LAMBDA c : ~Includes(rec.removedColumns, c))

C12_ReAddKeepsPosition ==
    pc = "done" =>
        \A i \in DOMAIN processedNodes :
            LET rec  == processedNodes[i]
                kept == FilteredInput(rec)
                new  == SelectSeq(Dedupe(rec.addedColumns), LAMBDA c : ~Includes(kept, c))
            IN rec.addedColumns # <<>> =>
                  /\ \A k \in DOMAIN kept :
                        Includes(rec.addedColumns, kept[k]) =>
                           /\ k \in DOMAIN rec.nodes /\ rec.nodes[k] = kept[k]
                           /\ Cardinality({j \in DOMAIN rec.nodes : rec.nodes[j] = kept[k]}) = 1
                  /\ rec.nodes = kept \o new

\* a resolved merger whose output name is the first of two input columns
C12_Witness ==
    /\ pc = "done"
    /\ \E i \in DOMAIN processedNodes :
          LET rec == processedNodes[i]
          IN /\ rec.addedColumns # <<>>
             /\ Len(FilteredInput(rec)) = 2
             /\ FilteredInput(rec)[1] = rec.addedColumns[1]

(***************************************************************************)
(* Notions shared by the properties of the SQL modal                       *)
(***************************************************************************)
\* the processed record the modal was opened on
SelectedRecord ==
    processedNodes[CHOOSE i \in DOMAIN processedNodes : processedNodes[i].id = selectedNode]

SqlShown == pc = "done" /\ selectedNode # NoId

\* the sources of the declared connections that end at port of node j
SourcesAtPort(j, port) ==
    {connections[k].sourceID : k \in {i \in DOMAIN connections :
        connections[i].destID = j /\ destPorts[i] = port}}

IsJoinerFactory(f) == f \in {JoinerFactory, Joiner3Factory}

SingleInputFactories ==
    {StringToNumberFactory, OtherFactory, ExpressionFactory,
     StringManipulationFactory, RuleEngineFactory, RowFilterFactory}

(***************************************************************************)
(* C13: for a join node J with a connection A -> J at target port 0 and a  *)
(* connection B -> J at target port 1, the SQL generated for J has A as    *)
(* its left input and B as its right input, whatever the declaration order *)
(* of the two connections and the ids and orders of A and B.               *)
(***************************************************************************)
C13_JoinPortsDecideSides ==
    (SqlShown /\ IsJoinerFactory(SelectedRecord.nodeType)) =>
        \A A, B \in Declared :
            (SourcesAtPort(selectedNode, 0) = {A} /\ SourcesAtPort(selectedNode, 1) = {B}) =>
                /\ ~sqlResult.isError
                /\ sqlResult.left = A
                /\ sqlResult.right = B

(***************************************************************************)
(* C14: in a direct call of convertJoinerNodeToSQL, when the connection of *)
(* any listed predecessor into the joiner lacks a target port, or port 0   *)
(* or port 1 has no usable predecessor, the result is an error with        *)
(* neither side assigned, for every order of the list.                     *)
(***************************************************************************)
MissingPortListed ==
    \E i \in DOMAIN allProcessedNodes :
        allProcessedNodes[i].nextNodes[1].targetPortIndex = NoPort

AttachedAt(port) ==
    \E i \in DOMAIN allProcessedNodes :
        /\ allProcessedNodes[i].nextNodes[1].targetPortIndex = port
        /\ allProcessedNodes[i].sqlAlias

C14_JoinerErrors ==
    (pc = "called" /\ (MissingPortListed \/ ~AttachedAt(0) \/ ~AttachedAt(1))) =>
        /\ sqlResult.isError
        /\ sqlResult.left = NoId
        /\ sqlResult.right = NoId

(***************************************************************************)
(* C15: a resolved join node with merge-join-columns enabled, fed at port  *)
(* 0 by L and at port 1 by R, has as output schema the columns of L        *)
(* followed by the columns of R without the right join key, whichever ids  *)
(* L and R have.                                                           *)
(***************************************************************************)
C15_JoinMergeSchema ==
    pc = "done" =>
        \A i \in DOMAIN processedNodes :
            LET rec == processedNodes[i]
            IN (/\ IsJoinerFactory(rec.nodeType)
                /\ "mergeJoinColumns" \in DOMAIN rec.config
                /\ rec.config.mergeJoinColumns) =>
                  \A L, R \in DOMAIN processedNodeMap :
                      (SourcesAtPort(rec.id, 0) = {L} /\ SourcesAtPort(rec.id, 1) = {R}) =>
                          rec.nodes = processedNodeMap[L].nodes \o
                              SelectSeq(processedNodeMap[R].nodes,
                                        LAMBDA c : c # rec.config.rightTableColumn)

(***************************************************************************)
(* C16: a resolved Column Renamer with the rule x -> z whose input schema  *)
(* holds x has as output schema the input schema with z at the position of *)
(* x; x is gone and no other column moves.                                 *)
(***************************************************************************)
C16_RenamerSchema ==
    pc = "done" =>
        \A i \in DOMAIN processedNodes :
            LET rec == processedNodes[i]
                input == GatherInputColumns(rec.previousNodes, processedNodeMap)
            IN (/\ rec.nodeType = OtherFactory
                /\ "oldName" \in DOMAIN rec.config
                /\ Includes(input, rec.config.oldName)) =>
                  rec.nodes = [k \in DOMAIN input |->
                                  IF input[k] = rec.config.oldName
                                  THEN rec.config.newName ELSE input[k]]

(***************************************************************************)
(* C17: the resolved output schema of a Column Merger equals the list of   *)
(* output column names convertColumnMergerNodeToSQL selects for the same   *)
(* settings and the node's resolved (non-empty) input schema, in every     *)
(* output placement.                                                       *)
(***************************************************************************)
C17_MergerMatchesSQL ==
    pc = "done" =>
        \A i \in DOMAIN processedNodes :
            LET rec == processedNodes[i]
                input == GatherInputColumns(rec.previousNodes, processedNodeMap)
                sql == convertColumnMergerNodeToSQL(rec.config, InputTable, input)
            IN (rec.nodeType = ColumnMergerFactory /\ input # <<>> /\ ~sql.isError) =>
                  rec.nodes = sql.columns

(***************************************************************************)
(* C18: when the SQL of a single-input node is generated and no direct     *)
(* predecessor of the node is found in the context, the outcome is an      *)
(* error and no SELECT statement.                                          *)
(***************************************************************************)
C18_NoPredecessorIsError ==
    (/\ SqlShown
     /\ SelectedRecord.nodeType \in SingleInputFactories
     /\ findPredecessorNodes(selectedNode, allProcessedNodes) = <<>>)
    => sqlResult.isError

(***************************************************************************)
(* C19: when the SQL of a single-input node with more than one direct      *)
(* predecessor is generated, the table in FROM and the column list both    *)
(* come from the predecessor that is first in the declaration order of the *)
(* workflow (of its nodes, or of its connections).                         *)
(***************************************************************************)
DirectPredecessors(j) ==
    {connections[k].sourceID : k \in {i \in DOMAIN connections :
        connections[i].destID = j /\ connections[i].sourceID # j}}

\* the predecessor of j whose node is declared first
FirstDeclaredNode(j) ==
    nodes[CHOOSE i \in DOMAIN nodes :
            /\ nodes[i] \in DirectPredecessors(j)
            /\ \A k \in 1..(i - 1) : nodes[k] \notin DirectPredecessors(j)]

\* the predecessor of j whose connection into j is declared first
FirstDeclaredConnection(j) ==
    connections[CHOOSE i \in DOMAIN connections :
            /\ connections[i].destID = j /\ connections[i].sourceID # j
            /\ \A k \in 1..(i - 1) : connections[k].destID # j].sourceID

C19_FirstDeclaredPredecessor ==
    (/\ SqlShown
     /\ SelectedRecord.nodeType \in SingleInputFactories
     /\ Cardinality(DirectPredecessors(selectedNode)) > 1
     /\ DirectPredecessors(selectedNode) \subseteq OutputIds
     /\ ~sqlResult.isError)
    => /\ sqlResult.from \in {FirstDeclaredNode(selectedNode),
                              FirstDeclaredConnection(selectedNode)}
       /\ sqlResult.columnsOf = sqlResult.from

(***************************************************************************)
(* C20: the input schema gathered for a node with more than one resolved   *)
(* direct predecessor holds exactly the names that occur in a              *)
(* predecessor's output schema, each once, in first-seen order over the    *)
(* predecessors.                                                           *)
(***************************************************************************)
\* the position at which name c is first seen when the schemas of the
\* predecessors are read one after the other: <<predecessor, column>>
FirstSeen(c, predIds, pmap) ==
    LET p == CHOOSE i \in DOMAIN predIds :
                 /\ Includes(pmap[predIds[i]].nodes, c)
                 /\ \A k \in 1..(i - 1) : ~Includes(pmap[predIds[k]].nodes, c)
        q == CHOOSE i \in DOMAIN pmap[predIds[p]].nodes :
                 /\ pmap[predIds[p]].nodes[i] = c
                 /\ \A k \in 1..(i - 1) : pmap[predIds[p]].nodes[k] # c
    IN <<p, q>>

IsUnionInFirstSeenOrder(g, predIds, pmap) ==
    /\ Range(g) = UNION {Range(pmap[predIds[i]].nodes) : i \in DOMAIN predIds}
    /\ IsInjective(g)
    /\ \A i, j \in DOMAIN g :
          i < j =>
             LET a == FirstSeen(g[i], predIds, pmap)
                 b == FirstSeen(g[j], predIds, pmap)
             IN a[1] < b[1] \/ (a[1] = b[1] /\ a[2] < b[2])

\* a record resolved from its input alone: nothing of its own, nothing added,
\* nothing removed
IsPassThrough(rec) ==
    rec.initialOutputColumns = <<>> /\ rec.addedColumns = <<>> /\ rec.removedColumns = <<>>

HasResolvedFanIn(rec) ==
    /\ Len(rec.previousNodes) > 1
    /\ \A k \in DOMAIN rec.previousNodes : rec.previousNodes[k] \in DOMAIN processedNodeMap

C20_UnionFirstSeen ==
    /\ (pc = "resolve" /\ pi <= Len(procSorted)) =>
          LET predIds == FindPredecessorIds(procSorted[pi].id, originalNodeMap(rawNodeData))
          IN (Len(predIds) > 1 /\ Range(predIds) \subseteq DOMAIN processedNodeMap) =>
                IsUnionInFirstSeenOrder(GatherInputColumns(predIds, processedNodeMap),
                                        predIds, processedNodeMap)
    /\ pc = "done" =>
          \A i \in DOMAIN processedNodes :
              LET rec == processedNodes[i]
              IN (HasResolvedFanIn(rec) /\ IsPassThrough(rec)) =>
                    IsUnionInFirstSeenOrder(rec.nodes, rec.previousNodes, processedNodeMap)

\* a resolved pass-through node with two predecessors whose schemas share a
\* name and differ in another
C20_Witness ==
    /\ pc = "done"
    /\ \E i \in DOMAIN processedNodes :
          LET rec == processedNodes[i]
          IN /\ HasResolvedFanIn(rec) /\ IsPassThrough(rec)
             /\ \E c \in Cols :
                   /\ Includes(processedNodeMap[rec.previousNodes[1]].nodes, c)
                   /\ Includes(processedNodeMap[rec.previousNodes[2]].nodes, c)
             /\ Len(rec.nodes) = 3

(***************************************************************************)
(* Notions shared by the properties of the queue of parseWorkflowKnime     *)
(***************************************************************************)
\* the position of a declared node in the nodes block
DeclIndex(n) == CHOOSE i \in DOMAIN nodes : nodes[i] = n

\* the nodes pushed before the while loop starts
Roots == {n \in Declared : BuildInDegree(nodes, connections)[n] = 0}

\* the sources of the connections into x
SourcesInto(x) == {connections[k].sourceID : k \in {i \in DOMAIN connections : connections[i].destID = x}}

\* the moment an ordered node that is not a root became ready: the order of
\* the last of its sources to be dequeued, and the position in that source's
\* nextNodes of the last entry naming it
ReadyKey(x) ==
    LET last == CHOOSE p \in SourcesInto(x) :
                    \A q \in SourcesInto(x) : nodeOrder[q] <= nodeOrder[p]
        pos  == CHOOSE i \in DOMAIN nextNodes[last] :
                    /\ nextNodes[last][i] = x
                    /\ \A j \in DOMAIN nextNodes[last] : nextNodes[last][j] = x => j <= i
    IN <<nodeOrder[last], pos>>

ReadyBefore(x, y) ==
    \/ ReadyKey(x)[1] < ReadyKey(y)[1]
    \/ ReadyKey(x)[1] = ReadyKey(y)[1] /\ ReadyKey(x)[2] < ReadyKey(y)[2]

(***************************************************************************)
(* C21: the nodes with in-degree 0 are ordered in declaration order (a     *)
(* root declared before another has the lower order) and before every      *)
(* other node, and the nodes that become ready later are ordered first-in  *)
(* first-out: the one that became ready first has the lower order.         *)
(***************************************************************************)
C21_QueueOrder ==
    /\ \A a, b \in Roots :
          (DeclIndex(a) < DeclIndex(b) /\ b \in Ordered) =>
              a \in Ordered /\ nodeOrder[a] < nodeOrder[b]
    /\ parseResult = "returned" => Roots \subseteq Ordered
    /\ \A a \in Roots, x \in Ordered \ Roots : a \in Ordered /\ nodeOrder[a] < nodeOrder[x]
    /\ \A x, y \in Ordered \ Roots : ReadyBefore(x, y) => nodeOrder[x] < nodeOrder[y]

\* a returned graph where one dequeue made two nodes ready, the one declared
\* later first
C21_Witness ==
    /\ parseResult = "returned"
    /\ \E x, y \in Ordered \ Roots :
          /\ ReadyKey(x)[1] = ReadyKey(y)[1]
          /\ ReadyKey(x)[2] < ReadyKey(y)[2]
          /\ DeclIndex(x) > DeclIndex(y)

(***************************************************************************)
(* C22: a second call of processWorkflowData on the same raw node data     *)
(* ends with the same records, in the same sequence, as the first; in      *)
(* particular every node has the same resolved output schema and the same  *)
(* predecessor list, and while the second call runs every node it has      *)
(* resolved has the schema the first call gave it.                         *)
(***************************************************************************)
\* the record the first call returned for node id
FirstRunRecord(id) ==
    firstRun[CHOOSE i \in DOMAIN firstRun : firstRun[i].id = id]

C23_InputUnchanged ==
    [][(pc \in {"effect", "resolve"}) =>
          /\ rawNodeData' = rawNodeData
          /\ tempRawNodes' = tempRawNodes
          /\ UNCHANGED <<nodes, connections, xmlPaths, nextNodes, inDegree, queue,
                         order, nodeOrder, sortedNodes, parseResult, xi>>]_vars

\* a finished call that had to reorder the records and found a predecessor:
\* the raw list is still in archive order and its records still hold no
\* schema and no predecessors
C23_Witness ==
    /\ pc = "done"
    /\ processedNodes # <<>>
    /\ [i \in DOMAIN procSorted |-> procSorted[i].id] # [i \in DOMAIN rawNodeData |-> rawNodeData[i].id]
    /\ \E i \in DOMAIN processedNodes :
          /\ processedNodes[i].previousNodes # <<>>
          /\ processedNodes[i].nodes # <<>>
    /\ \A i \in DOMAIN rawNodeData :
          rawNodeData[i].previousNodes = <<>> /\ rawNodeData[i].nodes = <<>>

(***************************************************************************)
(* C24: getEntryValue returns null when the entry collection is absent or  *)
(* holds no entry with the key; for the entry with the key it returns null *)
(* when the entry carries the explicit-null tag, otherwise a boolean when  *)
(* the entry is boolean-typed (true exactly when the value is "true"),     *)
(* otherwise the raw string value, or null when that value is empty; the   *)
(* same for a single entry object and for an array of entries.             *)
(***************************************************************************)
\* the positions of the entries of the call that carry the key asked for
WithKey == {i \in DOMAIN callArgs.entries :
               callArgs.entries[i].attrs /\ callArgs.entries[i].key = "k"}

C24_GetEntryValue ==
    pc = "entryDone" =>
        /\ (callArgs.kind = "absent" \/ WithKey = {}) => callResult = JsNull
        /\ \A i \in WithKey :
              LET e == callArgs.entries[i]
              IN WithKey = {i} =>
                    /\ e.isnull = "true" => callResult = JsNull
                    /\ (e.isnull # "true" /\ e.type = "xboolean") =>
                          callResult = JsBoolean(e.value = "true")
                    /\ (e.isnull # "true" /\ e.type # "xboolean" /\ e.value = "") =>
                          callResult = JsNull
                    /\ (e.isnull # "true" /\ e.type # "xboolean" /\ e.value # "") =>
                          callResult = JsString(e.value)

\* the key was looked up in an array whose second entry carries it, typed as
\* a string, with an empty value
C24_Witness ==
    /\ pc = "entryDone"
    /\ callArgs.kind = "array"
    /\ WithKey = {2}
    /\ callArgs.entries[2].isnull = "false"
    /\ callArgs.entries[2].type = "xstring"
    /\ callArgs.entries[2].value = ""
    /\ callResult = JsNull

(***************************************************************************)
(* C25: getArrayValuesFromConfig returns the values of the string-typed    *)
(* entries keyed "0", "1", ... in positional order and skips every other   *)
(* entry (the "array-size" entry, a stray metadata entry, an entry of      *)
(* another type), whatever the order of the entries in the entry set.      *)
(***************************************************************************)
IsPositionalString(e) == e.type = "xstring" /\ \E i \in 0..4 : ToDigit(i) = e.key

\* the values of the positional string entries of the call, by position
PositionalValues ==
    LET es == callArgs.entries
        positions == {ParseDigit(es[i].key) : i \in {j \in DOMAIN es : IsPositionalString(es[j])}}
        sorted == AscendingSeq(positions)
    IN [k \in DOMAIN sorted |->
           es[CHOOSE i \in DOMAIN es :
                  IsPositionalString(es[i]) /\ ParseDigit(es[i].key) = sorted[k]].value]

C25_ArrayValuesPositional ==
    pc \in {"arrayDone", "arrayDoneJoiner"} => callResult = PositionalValues

(***************************************************************************)
(* C26: for a workflow with N >= 1 declared nodes and no connection at     *)
(* all, parseWorkflowKnime returns all N nodes, in declaration order, with *)
(* the orders 0 .. N-1.                                                    *)
(***************************************************************************)
C26_NoConnectionsAllRoots ==
    (connections = <<>> /\ nodes # <<>> /\ ParseFinished) =>
        /\ parseResult = "returned"
        /\ sortedNodes = nodes
        /\ \A i \in DOMAIN nodes : nodes[i] \in Ordered /\ nodeOrder[nodes[i]] = i - 1

(***************************************************************************)
(* C27: the nodes parseWorkflowKnime returns carry pairwise distinct       *)
(* orders that are exactly 0 .. k-1: the i-th returned node has order i    *)
(* (counting from 0), no node is returned twice, and only returned nodes   *)
(* have an order.                                                          *)
(***************************************************************************)
C27_OrdersAreRanks ==
    /\ IsInjective(sortedNodes)
    /\ Ordered = Range(sortedNodes)
    /\ \A i \in DOMAIN sortedNodes : nodeOrder[sortedNodes[i]] = i - 1
    /\ \A a, b \in Ordered : a # b => nodeOrder[a] # nodeOrder[b]
    /\ parseResult = "returned" => order = Len(sortedNodes)

\* three nodes were returned, in another sequence than they were declared
C27_Witness ==
    /\ parseResult = "returned"
    /\ Len(sortedNodes) = 3
    /\ sortedNodes # nodes

(***************************************************************************)
(* C28: on every graph whose connections reference declared nodes, cyclic  *)
(* or not, parallel connections allowed, the ordering loop of              *)
(* parseWorkflowKnime terminates and the parser returns; no node is        *)
(* enqueued or dequeued twice and no in-degree counter becomes negative.   *)
(***************************************************************************)
C28_LoopTerminates ==
    /\ [](NoDangling =>
            /\ IsInjective(sortedNodes \o queue)
            /\ \A n \in DOMAIN inDegree : inDegree[n] >= 0
            /\ order <= Len(nodes))
    /\ ((pc = "kahn" /\ NoDangling) ~> (parseResult = "returned"))

\* the parser returned on a graph with a cycle and parallel connections,
\* after it dequeued a node
C28_Witness ==
    /\ parseResult = "returned"
    /\ NoDangling
    /\ \E a \in Declared : OnCycle(a)
    /\ \E j, k \in DOMAIN connections : j # k /\ connections[j] = connections[k]
    /\ sortedNodes # <<>>

(***************************************************************************)
(* C29: when the SQL of a selected node n is shown, every processed node   *)
(* whose nextNodes contains n's id is in the context handed to the         *)
(* generator (the processed nodes with order < n.order): the predecessors  *)
(* a generator finds inside the context are the same records, in the same  *)
(* sequence, as the predecessors found among all processed nodes.          *)
(***************************************************************************)
C29_PredecessorsInContext ==
    SqlShown =>
        /\ \A i \in DOMAIN processedNodes :
              Includes(processedNodes[i].nextNodes, selectedNode)
                  => Includes(allProcessedNodes, processedNodes[i])
        /\ findPredecessorNodes(selectedNode, allProcessedNodes)
               = findAllPreviousNodes(selectedNode, processedNodes)

\* the SQL of a node with two direct predecessors is shown
C29_Witness ==
    /\ SqlShown
    /\ Len(findAllPreviousNodes(selectedNode, processedNodes)) >= 2

\* the SQL of a node is shown whose context holds a direct predecessor and a
\* node that is not one
C29_WitnessIndirect ==
    /\ SqlShown
    /\ findAllPreviousNodes(selectedNode, processedNodes) # <<>>
    /\ Len(allProcessedNodes) > Len(findAllPreviousNodes(selectedNode, processedNodes))

\* the destIDs of the connections leaving id, in connection declaration order
OutgoingDests(id) ==
    LET ks == SelectSeq([k \in DOMAIN connections |-> k],
                        LAMBDA k : connections[k].sourceID = id)
    IN [i \in DOMAIN ks |-> connections[ks[i]].destID]

\* the ids of the other raw nodes whose nextNodes contains id
FeedersOf(id) ==
    {rawNodeData[i].id : i \in {j \in DOMAIN rawNodeData :
                                   /\ rawNodeData[j].id # id
                                   /\ Includes(rawNodeData[j].nextNodes, id)}}

(***************************************************************************)
(* C30: the predecessor list processWorkflowData stores for a node holds   *)
(* exactly the ids of the other nodes having a record whose nextNodes      *)
(* contains the node's id, each id once even with parallel connections,    *)
(* never the node's own id; and for every declared node nextNodes lists    *)
(* the destIDs of its outgoing connections in connection declaration       *)
(* order.                                                                  *)
(***************************************************************************)
C30_PredecessorLists ==
    /\ \A i \in DOMAIN processedNodes :
          LET r == processedNodes[i]
          IN /\ IsInjective(r.previousNodes)
             /\ ~Includes(r.previousNodes, r.id)
             /\ Range(r.previousNodes) = FeedersOf(r.id)
             /\ r.nextNodes = OutgoingDests(r.id)
    /\ \A id \in DOMAIN nextNodes : nextNodes[id] = OutgoingDests(id)
    /\ pc \notin {"build", "failed", "call", "called", "entry", "entryDone",
                  "array", "arrayDone", "arrayDoneJoiner"}
          => DOMAIN nextNodes = Declared

\* a processed node fed by two parallel connections from one node lists
\* that node once
C30_Witness ==
    /\ pc = "done"
    /\ \E i \in DOMAIN processedNodes :
          LET r == processedNodes[i]
          IN /\ r.previousNodes # <<>>
             /\ \E j, k \in DOMAIN connections :
                   /\ j # k
                   /\ connections[j] = connections[k]
                   /\ connections[j].destID = r.id
                   /\ connections[j].sourceID = r.previousNodes[1]

====
